---- MODULE Spec2Model ----
(***************************************************************************)
(* hessian_estimator_full-eigen: main() of                                 *)
(* src/analysis/hessian_estimator_full-eigen.cc as a state machine.        *)
(*                                                                         *)
(* The program is one sequential run: count the parameters, allocate the   *)
(* gradient and covariance matrices, collect one gradient row per example, *)
(* centre the rows, form the covariance, release the gradient matrix,      *)
(* eigendecompose, sort the eigenpairs (selection sort) and write the two  *)
(* output files.  pc is the position in main().                            *)
(*                                                                         *)
(* Indices are the code's (0-based): vectors and matrices are functions    *)
(* over 0..n-1.  A `real` is an exact rational <<num, den>> with den >= 0; *)
(* den = 0 stands for the IEEE specials the code can produce by dividing   *)
(* by zero: <<1,0>> = +inf, <<-1,0>> = -inf, <<0,0>> = NaN.                *)
(***************************************************************************)
EXTENDS Integers, Sequences, FiniteSets, TLC

(* ------------------------------ bounds -------------------------------- *)

\* Largest total number of parameters (sum of the der_params group sizes).
MaxParams == 3

\* Largest number of examples in the dataset.
MaxExamples == 3

\* Largest entry of a constant per-example gradient, and of the values left
\* in der_params by the model loader.
MaxGrad == 1

\* Largest eigenvalue handed to the sort when it is checked on its own.
MaxEigVal == 2

(* --------------------------- real arithmetic -------------------------- *)

Abs(x) == IF x < 0 THEN -x ELSE x

Sign(x) == IF x < 0 THEN -1 ELSE IF x > 0 THEN 1 ELSE 0

RECURSIVE GCD(_, _)
GCD(a, b) == IF b = 0 THEN a ELSE GCD(b, a % b)

\* The canonical form of num/den: lowest terms, den > 0; den = 0 keeps only
\* the sign of num (inf, -inf, NaN).
RNorm(n, dn) ==
  IF dn = 0 THEN <<Sign(n), 0>>
  ELSE LET g == GCD(Abs(n), Abs(dn))
           s == IF dn < 0 THEN -1 ELSE 1
       IN <<(s * n) \div g, (s * dn) \div g>>

\* An int converted to real.
R(n) == <<n, 1>>

RZero == R(0)

\* x + y
RAdd(x, y) == RNorm(x[1] * y[2] + y[1] * x[2], x[2] * y[2])

\* x - y
RSub(x, y) == RNorm(x[1] * y[2] - y[1] * x[2], x[2] * y[2])

\* x * y
RMul(x, y) == RNorm(x[1] * y[1], x[2] * y[2])

\* 1.0 / x
RInv(x) == RNorm(x[2], x[1])

\* x / y
RDiv(x, y) == RNorm(x[1] * y[2], x[2] * y[1])

\* x < y; false whenever a NaN is involved.
RLess(x, y) == x[1] * y[2] < y[1] * x[2]

RIsFinite(x) == x[2] # 0

\* The sum of f[k] over k in lo..hi, accumulated from lo upwards.
RECURSIVE RSum(_, _, _)
RSum(f, lo, hi) == IF hi < lo THEN RZero ELSE RAdd(RSum(f, lo, hi - 1), f[hi])

(* ------------------------------- state -------------------------------- *)

VARIABLES
  pc,            \* position in main()
  size,          \* der_params->size[0..n_data-1]
  n_examples,    \* data.n_examples
  der,           \* der_params->data[j][k]
  n_params,      \* int n_params
  grad_rows,     \* gradients->m (rows)
  grad_cols,     \* gradients->n (columns)
  gradients,     \* the gradient matrix's storage, row-major: cell i*n + c
  covariance,    \* covariance[a][b]
  i,             \* the example loop's index
  j,             \* the group loop's index
  ptr,           \* real *ptr, as a cell index of the gradient storage
  tick,          \* int tick
  gradient_mean, \* gradient_mean->ptr[c]
  mean_norm2,    \* real mean_norm2
  d,             \* eigenvalues d->ptr[k]
  V,             \* eigenvectors V->ptr[row][col], one eigenvector per column
  sort_i,        \* the sort's outer index
  max_index,     \* int max_index of the last outer iteration
  mkdir_ok,      \* outcome of system("mkdir ..."): "unrun", "ok", "failed"
  open_vals,     \* fd_eigenvals: "unopened", "open", "failed", "closed"
  open_vecs,     \* fd_eigenvecs: "unopened", "open", "failed", "closed"
  fd_eigenvals,  \* the values written to eigenvals_full.txt, in order
  fd_eigenvecs,  \* the rows written to eigenvecs_full.txt, in order
  out_j,         \* the output loops' index
  ret,           \* main's return value, -1 while it has not returned
  live,          \* the allocator's live objects
  freed,         \* per object, how many times it was released
  allocd,        \* per object, how many times it was allocated
  touched,       \* the objects the last step read or wrote
  \* history variables (not in the code): what the run did
  own,           \* own[i+1]: the gradient example i's backward pass added
  bwd,           \* bwd[i+1]: der_params right after example i's backward pass
  written,       \* written[cell]: the examples whose memcpy wrote the cell
  oob,           \* a memcpy wrote outside the gradient storage
  marks,         \* marks[m]: the example index at which the m-th "." was printed
  raw,           \* the gradient matrix as collected, before centring
  d0,            \* d as the sort loop received it (kept by SpecSort only)
  V0             \* V as the sort loop received it (kept by SpecSort only)

vars == <<pc, size, n_examples, der, n_params, grad_rows, grad_cols, gradients,
          covariance, i, j, ptr, tick, gradient_mean, mean_norm2, d, V, sort_i,
          max_index, mkdir_ok, open_vals, open_vecs, fd_eigenvals, fd_eigenvecs,
          out_j, ret, live, freed, allocd, touched, own, bwd, written, oob, marks, raw,
          d0, V0>>

\* The variables of the gradient collection (lines 87-133).
collectVars == <<size, n_examples, der, n_params, grad_rows, grad_cols, i, j,
                 ptr, tick, own, bwd, written, oob, marks>>

\* The variables of the statistics pass (lines 135-169).
statVars == <<gradient_mean, mean_norm2, covariance, raw>>

\* The variables of the eigendecomposition and the sort (lines 174-202).
eigVars == <<d, V, sort_i, max_index, d0, V0>>

\* The variables of the output writer (lines 204-255).
outVars == <<mkdir_ok, open_vals, open_vecs, fd_eigenvals, fd_eigenvecs, out_j, ret>>

(* ------------------------------ helpers ------------------------------- *)

\* A vector of n zeros.
ZeroVec(n) == [c \in 0..(n - 1) |-> RZero]

\* An m x n matrix of zeros.
ZeroMat(m, n) == [r \in 0..(m - 1) |-> ZeroVec(n)]

\* The number of groups, der_params->n_data.
NData(sz) == Cardinality(DOMAIN sz)

\* n_params as lines 88-92 accumulate it: size[0] + ... + size[n_data-1].
RECURSIVE CountParamsFrom(_, _)
CountParamsFrom(sz, k) ==
  IF k >= NData(sz) THEN 0 ELSE sz[k] + CountParamsFrom(sz, k + 1)

CountParams(sz) == CountParamsFrom(sz, 0)

\* The group layouts of the models considered: every way to split at most
\* MaxParams parameters into groups of at least one.
Layouts ==
  UNION {{sz \in [0..(n - 1) -> 1..MaxParams] : CountParams(sz) <= MaxParams}
         : n \in 0..MaxParams}

\* der_params with every entry equal to v.
ConstDer(sz, v) == [g \in DOMAIN sz |-> [k \in 0..(sz[g] - 1) |-> R(v)]]

\* der_params with a one at the p-th parameter (counting through the groups
\* in order, wrapping around) and zeros elsewhere.
UnitDer(sz, p) ==
  LET n == CountParams(sz)
      before(g) == CountParams([t \in 0..(g - 1) |-> sz[t]])
  IN [g \in DOMAIN sz |->
        [k \in 0..(sz[g] - 1) |-> IF n > 0 /\ before(g) + k = p % n THEN R(1) ELSE R(0)]]

\* What the loss gradient of example ex can be: a constant vector, or the
\* unit vector of parameter ex.  (The spec's toy dataset, gradients [1,0],
\* [0,1], [1,1], is among these.)
ExampleGradients(sz, ex) ==
  {ConstDer(sz, v) : v \in 0..MaxGrad} \cup {UnitDer(sz, ex)}

\* csae->backward accumulates: der_params += the example's gradient.
Backward(dr, g) == [a \in DOMAIN dr |-> [k \in DOMAIN dr[a] |-> RAdd(dr[a][k], g[a][k])]]

\* ClearGroup without the memset of line 123.
ClearGroupSkipped(dr, g) == dr

\* memset(der_params->data[g], 0, ...) for one group.
ClearGroup(dr, g) == [dr EXCEPT ![g] = [k \in DOMAIN dr[g] |-> RZero]]

\* Lines 104-105: memset every group of der_params to zero.
ClearDerivatives(dr) == [g \in DOMAIN dr |-> [k \in DOMAIN dr[g] |-> RZero]]

\* memcpy(ptr, src, n reals) into the gradient storage: cell p + k gets
\* src[k]; a cell outside the storage is not stored (it is reported in oob).
Memcpy(mem, p, src) ==
  [c \in DOMAIN mem |->
     IF c >= p /\ c < p + Cardinality(DOMAIN src) THEN src[c - p] ELSE mem[c]]

\* The cells a memcpy of n reals at p writes.
MemcpyCells(p, n) == p..(p + n - 1)

\* gradients->ptr[row]: the first cell of a row of a dense row-major matrix.
RowPtr(row, ncols) == row * ncols

\* AdvancePtr by one real instead of by the group's size.
AdvancePtrByOne(p, sz) == p + 1

\* ptr += der_params->size[j] (line 124).
AdvancePtr(p, sz) == p + sz

\* Ties of (real)i/n_examples against tick/10.0 that compare greater when
\* real is float: the ticks t with (float)(t/10) > (double)(t/10).
FloatTieAbove == {1, 2, 3, 4, 6, 8}

\* The outcomes of (real)i/data.n_examples > tick/10.0 (line 128).  Away
\* from a tie the quotient order is the exact one.  At a tie (10*i = tick*n)
\* a double build compares equal; a float build compares the rounded float
\* quotient with the double tick/10.0.
ProgressDue(ex, n, t) ==
  IF 10 * ex = t * n
  THEN {FALSE} \cup {t \in FloatTieAbove}
  ELSE {10 * ex > t * n}

\* The objects main() takes from the allocator.
Objects == {"gradients", "covariance", "gradient_mean", "d", "V"}

\* The per-object counter cnt with one more for every object of objs (an
\* allocation from, or a release by, the allocator).
Counted(cnt, objs) == [o \in DOMAIN cnt |-> IF o \in objs THEN cnt[o] + 1 ELSE cnt[o]]

\* gradients->ptr[row][col] of the matrix stored in mem with ncols columns.
Cell(mem, ncols, row, col) == mem[RowPtr(row, ncols) + col]

\* The stored matrix as rows: [row |-> [col |-> value]].
AsMatrix(mem, nrows, ncols) ==
  [r \in 0..(nrows - 1) |-> [c \in 0..(ncols - 1) |-> Cell(mem, ncols, r, c)]]

(* ------------------------------- Init --------------------------------- *)

\* The state when main() reaches line 87: the dataset and the model are
\* loaded (any layout, any number of examples, der_params holding whatever
\* the loader left), nothing is allocated, no file is open.
Init ==
  /\ pc = "count"
  /\ size \in Layouts
  /\ n_examples \in 1..MaxExamples
  /\ \E v \in 0..MaxGrad : der = ConstDer(size, v)
  /\ n_params = 0
  /\ grad_rows = 0
  /\ grad_cols = 0
  /\ gradients = ZeroVec(0)
  /\ covariance = ZeroMat(0, 0)
  /\ i = 0
  /\ j = 0
  /\ ptr = 0
  /\ tick = 1
  /\ gradient_mean = ZeroVec(0)
  /\ mean_norm2 = RZero
  /\ d = ZeroVec(0)
  /\ V = ZeroMat(0, 0)
  /\ sort_i = 0
  /\ max_index = 0
  /\ mkdir_ok = "unrun"
  /\ open_vals = "unopened"
  /\ open_vecs = "unopened"
  /\ fd_eigenvals = <<>>
  /\ fd_eigenvecs = <<>>
  /\ out_j = 0
  /\ ret = -1
  /\ live = {}
  /\ freed = [o \in Objects |-> 0]
  /\ allocd = [o \in Objects |-> 0]
  /\ touched = {}
  /\ own = <<>>
  /\ bwd = <<>>
  /\ written = ZeroVec(0)
  /\ oob = FALSE
  /\ marks = <<>>
  /\ raw = ZeroMat(0, 0)
  /\ d0 = ZeroVec(0)
  /\ V0 = ZeroMat(0, 0)

(* ------------------------ gradient collection ------------------------- *)

\* Lines 87-93: n_params = the sum of the group sizes.
CountParamsStep ==
  /\ pc = "count"
  /\ n_params' = CountParams(size)
  /\ pc' = "alloc"
  /\ touched' = {}
  /\ UNCHANGED <<size, n_examples, der, grad_rows, grad_cols, gradients, i, j, ptr,
                 tick, own, bwd, written, oob, marks, live, freed, allocd>>
  /\ UNCHANGED <<statVars, eigVars, outVars>>

\* Lines 95-101: gradients = Mat(n_examples, n_params) and
\* covariance = Mat(n_params, n_params), both from the allocator.  Their
\* cells are shown as zero until written; no step reads one before it is
\* written (the collection loop writes every gradient cell, mxTrMatMulMat
\* every covariance cell).
AllocMats ==
  /\ pc = "alloc"
  /\ grad_rows' = n_examples
  /\ grad_cols' = n_params
  /\ gradients' = ZeroVec(n_examples * n_params)
  /\ written' = [c \in 0..(n_examples * n_params - 1) |-> <<>>]
  /\ covariance' = ZeroMat(n_params, n_params)
  /\ live' = live \cup {"gradients", "covariance"}
  /\ allocd' = Counted(allocd, {"gradients", "covariance"})
  /\ pc' = "clear"
  /\ touched' = {}
  /\ UNCHANGED <<size, n_examples, der, n_params, i, j, ptr, tick, own, bwd, oob,
                 marks, freed>>
  /\ UNCHANGED <<gradient_mean, mean_norm2, raw, eigVars, outVars>>

\* Lines 103-109: clear the derivatives; tick = 1; i = 0.
ClearDer ==
  /\ pc = "clear"
  /\ der' = ClearDerivatives(der)
  /\ tick' = 1
  /\ i' = 0
  /\ pc' = "loop"
  /\ touched' = {}
  /\ UNCHANGED <<size, n_examples, n_params, grad_rows, grad_cols, gradients, j, ptr,
                 own, bwd, written, oob, marks, live, freed, allocd>>
  /\ UNCHANGED <<statVars, eigVars, outVars>>

\* Lines 109-120: for example i, forward and backward pass (the backward
\* pass adds the example's gradient to der_params), then
\* ptr = gradients->ptr[i].
Fbprop ==
  /\ pc = "loop"
  /\ i < n_examples
  /\ \E g \in ExampleGradients(size, i) :
       /\ der' = Backward(der, g)
       /\ own' = Append(own, g)
       /\ bwd' = Append(bwd, Backward(der, g))
  /\ ptr' = RowPtr(i, grad_cols)
  /\ j' = 0
  /\ pc' = "save"
  /\ touched' = {}
  /\ UNCHANGED <<size, n_examples, n_params, grad_rows, grad_cols, gradients, i, tick,
                 written, oob, marks, live, freed, allocd>>
  /\ UNCHANGED <<statVars, eigVars, outVars>>

\* Lines 121-125, one iteration: copy group j to ptr, zero group j, advance
\* ptr by the group's size.
SaveGroup ==
  /\ pc = "save"
  /\ j < NData(size)
  /\ gradients' = Memcpy(gradients, ptr, der[j])
  /\ written' = [c \in DOMAIN written |->
                   IF c \in MemcpyCells(ptr, size[j]) THEN Append(written[c], i)
                   ELSE written[c]]
  /\ oob' = (oob \/ \E c \in MemcpyCells(ptr, size[j]) : c \notin DOMAIN gradients)
  /\ der' = ClearGroup(der, j)
  /\ ptr' = AdvancePtr(ptr, size[j])
  /\ j' = j + 1
  /\ touched' = {"gradients"}
  /\ UNCHANGED <<pc, size, n_examples, n_params, grad_rows, grad_cols, i, tick, own,
                 bwd, marks, live, freed, allocd>>
  /\ UNCHANGED <<statVars, eigVars, outVars>>

\* Lines 127-133: print a "." and count the tick when the progress test
\* holds; then i++.
Progress ==
  /\ pc = "save"
  /\ j >= NData(size)
  /\ \E due \in ProgressDue(i, n_examples, tick) :
       IF due
       THEN /\ marks' = Append(marks, i)
            /\ tick' = tick + 1
       ELSE UNCHANGED <<marks, tick>>
  /\ i' = i + 1
  /\ pc' = "loop"
  /\ touched' = {}
  /\ UNCHANGED <<size, n_examples, der, n_params, grad_rows, grad_cols, gradients, j,
                 ptr, own, bwd, written, oob, live, freed, allocd>>
  /\ UNCHANGED <<statVars, eigVars, outVars>>

(* --------------------------- statistics pass -------------------------- *)

\* Vec::norm2 as the spec reads it: the squared L2 norm of a row.
Norm2(row) == RSum([c \in DOMAIN row |-> RMul(row[c], row[c])], 0, Cardinality(DOMAIN row) - 1)

\* Lines 136-142: mean_norm2 = (sum over the rows of norm2) / n_examples.
MeanNorm2(mem, nrows, ncols) ==
  RDiv(RSum([r \in 0..(nrows - 1) |-> Norm2(AsMatrix(mem, nrows, ncols)[r])], 0, nrows - 1),
       R(nrows))

\* InvNExamples with n_examples - 1 for n_examples.
InvNExamplesLessOne(n) == RInv(R(n - 1))

\* Line 156: inv_n_examples = 1.0 / data.n_examples.
InvNExamples(n) == RInv(R(n))

\* Lines 147-158: gradient_mean[c] = (0.0 + g[0][c] + ... + g[n-1][c]) * inv_n_examples.
GradientMean(mem, nrows, ncols) ==
  [c \in 0..(ncols - 1) |->
     RMul(RSum([r \in 0..(nrows - 1) |-> Cell(mem, ncols, r, c)], 0, nrows - 1),
          InvNExamples(nrows))]

\* Lines 162-164: gradients->ptr[i][j] -= gradient_mean->ptr[j], every i, j.
CenterRows(mem, nrows, ncols, mean) ==
  [c \in DOMAIN mem |->
     IF c < nrows * ncols THEN RSub(mem[c], mean[c % ncols]) ELSE mem[c]]

\* mxTrMatMulMat(A, B, C): C = A^T * B, for A = B = the nrows x ncols matrix.
mxTrMatMulMat(mem, nrows, ncols) ==
  [a \in 0..(ncols - 1) |->
     [b \in 0..(ncols - 1) |->
        RSum([r \in 0..(nrows - 1) |-> RMul(Cell(mem, ncols, r, a), Cell(mem, ncols, r, b))],
             0, nrows - 1)]]

\* mxRealMulMat(s, A, A): every entry of A times s.
mxRealMulMat(s, m) == [a \in DOMAIN m |-> [b \in DOMAIN m[a] |-> RMul(s, m[a][b])]]

\* CovScale with n_examples for n_examples - 1.
CovScaleByN(n) == RInv(R(n))

\* Line 169: the scale factor 1.0 / (data.n_examples - 1.0).
CovScale(n) == RInv(RSub(R(n), R(1)))

\* Lines 135-143, entered when the collection loop's test i < n_examples
\* fails: the mean squared gradient norm (printed only).
MeanNorm ==
  /\ pc = "loop"
  /\ i >= n_examples
  /\ mean_norm2' = MeanNorm2(gradients, n_examples, n_params)
  /\ raw' = AsMatrix(gradients, n_examples, n_params)
  /\ pc' = "mean"
  /\ touched' = {"gradients"}
  /\ UNCHANGED <<collectVars, gradients, gradient_mean, covariance, live, freed, allocd>>
  /\ UNCHANGED <<eigVars, outVars>>

\* Lines 145-158: allocate gradient_mean and compute the column means.
ComputeMean ==
  /\ pc = "mean"
  /\ gradient_mean' = GradientMean(gradients, n_examples, n_params)
  /\ live' = live \cup {"gradient_mean"}
  /\ allocd' = Counted(allocd, {"gradient_mean"})
  /\ pc' = "center"
  /\ touched' = {"gradients", "gradient_mean"}
  /\ UNCHANGED <<collectVars, gradients, mean_norm2, covariance, raw, freed>>
  /\ UNCHANGED <<eigVars, outVars>>

\* Lines 160-164: subtract the mean from every row, in place.
Center ==
  /\ pc = "center"
  /\ gradients' = CenterRows(gradients, n_examples, n_params, gradient_mean)
  /\ pc' = "trmul"
  /\ touched' = {"gradients", "gradient_mean"}
  /\ UNCHANGED <<collectVars, statVars, live, freed, allocd>>
  /\ UNCHANGED <<eigVars, outVars>>

\* Lines 166-168: covariance = gradients^T * gradients.
TrMul ==
  /\ pc = "trmul"
  /\ covariance' = mxTrMatMulMat(gradients, n_examples, n_params)
  /\ pc' = "scale"
  /\ touched' = {"gradients", "covariance"}
  /\ UNCHANGED <<collectVars, gradients, gradient_mean, mean_norm2, raw, live, freed, allocd>>
  /\ UNCHANGED <<eigVars, outVars>>

\* Line 169: covariance *= 1.0 / (n_examples - 1.0).
ScaleCov ==
  /\ pc = "scale"
  /\ covariance' = mxRealMulMat(CovScale(n_examples), covariance)
  /\ pc' = "free"
  /\ touched' = {"covariance"}
  /\ UNCHANGED <<collectVars, gradients, gradient_mean, mean_norm2, raw, live, freed, allocd>>
  /\ UNCHANGED <<eigVars, outVars>>

\* FreeGradients releasing the covariance instead of the gradient matrix.
FreeGradientsWrongObject ==
  /\ pc = "free"
  /\ live' = live \ {"covariance"}
  /\ freed' = Counted(freed, {"covariance"})
  /\ pc' = "alloceig"
  /\ touched' = {}
  /\ UNCHANGED allocd
  /\ UNCHANGED <<collectVars, gradients, statVars>>
  /\ UNCHANGED <<eigVars, outVars>>

\* Lines 171-172: allocator->free(gradients).
FreeGradients ==
  /\ pc = "free"
  /\ live' = live \ {"gradients"}
  /\ freed' = Counted(freed, {"gradients"})
  /\ pc' = "alloceig"
  /\ touched' = {}
  /\ UNCHANGED allocd
  /\ UNCHANGED <<collectVars, gradients, statVars>>
  /\ UNCHANGED <<eigVars, outVars>>

(* ----------------------- eigendecomposition --------------------------- *)

\* Lines 174-177: d = Vec(n_params), V = Mat(n_params, n_params).
AllocEig ==
  /\ pc = "alloceig"
  /\ d' = ZeroVec(n_params)
  /\ V' = ZeroMat(n_params, n_params)
  /\ live' = live \cup {"d", "V"}
  /\ allocd' = Counted(allocd, {"d", "V"})
  /\ pc' = "eig"
  /\ touched' = {}
  /\ UNCHANGED <<collectVars, gradients, statVars, freed>>
  /\ UNCHANGED <<sort_i, max_index, d0, V0, outVars>>

\* 3^n
RECURSIVE Pow3(_)
Pow3(n) == IF n = 0 THEN 1 ELSE 3 * Pow3(n - 1)

\* The eigenvector directions the model can represent are the vectors over
\* {-1, 0, 1}; Direction(n, code) is the code-th of them, entry p being the
\* p-th base-3 digit of code (most significant first) minus 1.
Direction(n, code) == [p \in 0..(n - 1) |-> ((code \div Pow3(n - 1 - p)) % 3) - 1]

\* v is not zero and its first nonzero entry is 1 (an eigenvector is kept up
\* to a positive scale, so the columns of V are orthogonal, not normalised).
IsCanonical(v) ==
  \E p \in DOMAIN v : v[p] = 1 /\ \A q \in DOMAIN v : q < p => v[q] = 0

\* cov * v
MatVec(cov, v) ==
  [a \in DOMAIN cov |->
     RSum([b \in DOMAIN v |-> RMul(cov[a][b], R(v[b]))], 0, Cardinality(DOMAIN v) - 1)]

\* The eigenvalue of the canonical direction v if v is an eigenvector:
\* (cov * v)[p] at v's leading entry p.
Rayleigh(cov, v) ==
  MatVec(cov, v)[CHOOSE p \in DOMAIN v : v[p] = 1 /\ \A q \in DOMAIN v : q < p => v[q] = 0]

\* cov * v = lambda * v with lambda finite.
IsEigenPair(cov, lambda, v) ==
  /\ RIsFinite(lambda)
  /\ \A a \in DOMAIN v : MatVec(cov, v)[a] = RMul(lambda, R(v[a]))

\* u . v
Dot(u, v) == RSum([a \in DOMAIN u |-> R(u[a] * v[a])], 0, Cardinality(DOMAIN u) - 1)

\* One orthogonal family of eigenpairs <<lambda, v>> of cov: the directions
\* are scanned from code on, and each eigenvector orthogonal to those
\* already taken is taken.
RECURSIVE EigenBasis(_, _, _)
EigenBasis(cov, code, taken) ==
  LET n == Cardinality(DOMAIN cov)
      v == Direction(n, code)
  IN IF code >= Pow3(n) \/ Len(taken) = n THEN taken
     ELSE IF /\ IsCanonical(v)
             /\ IsEigenPair(cov, Rayleigh(cov, v), v)
             /\ \A m \in 1..Len(taken) : Dot(taken[m][2], v) = RZero
          THEN EigenBasis(cov, code + 1, Append(taken, <<Rayleigh(cov, v), v>>))
          ELSE EigenBasis(cov, code + 1, taken)

\* The orders in which n eigenpairs can be returned.
Orders(n) ==
  {f \in [0..(n - 1) -> 1..n] : \A a, b \in 0..(n - 1) : f[a] = f[b] => a = b}

\* mxSymEig(covariance, V, d): the eigenvalues in d and the eigenvectors on
\* the columns of V, in no particular order: every order of the eigenbasis
\* is a possible result.  A covariance with no eigenbasis the model can
\* represent (entries that are not finite, irrational eigenvectors) has no
\* result, and the run is not followed past the solver.
mxSymEig(cov) ==
  LET n == Cardinality(DOMAIN cov)
      basis == EigenBasis(cov, 0, <<>>)
  IN IF Len(basis) # n THEN {}
     ELSE {<<[k \in 0..(n - 1) |-> basis[f[k]][1]],
             [r \in 0..(n - 1) |-> [c \in 0..(n - 1) |-> R(basis[f[c]][2][r])]]>>
           : f \in Orders(n)}

\* Lines 179-181: mxSymEig(covariance, V, d).
SymEig ==
  /\ pc = "eig"
  /\ \E res \in mxSymEig(covariance) :
       /\ d' = res[1]
       /\ V' = res[2]
  /\ sort_i' = 0
  /\ pc' = "sort"
  /\ touched' = {"covariance", "d", "V"}
  /\ UNCHANGED <<collectVars, gradients, statVars, live, freed, allocd>>
  /\ UNCHANGED <<max_index, d0, V0, outVars>>

(* -------------------------------- sort -------------------------------- *)

\* InnerStart with the inner loop started one entry too far (j = i + 2).
InnerStartSkipsOne(k) == k + 2

\* Line 191: the inner loop starts at j = i + 1.
InnerStart(k) == k + 1

\* Exceeds with <= for <: a later entry equal to the maximum replaces it.
ExceedsOrEquals(mv, x) == ~RLess(x, mv)

\* Line 192: max_value < d->ptr[j].
Exceeds(mv, x) == RLess(mv, x)

\* Lines 191-196: the inner loop from jj on; <<max_index, max_value>>.
RECURSIVE FindMax(_, _, _, _, _)
FindMax(dd, n, jj, mi, mv) ==
  IF jj >= n THEN <<mi, mv>>
  ELSE IF Exceeds(mv, dd[jj]) THEN FindMax(dd, n, jj + 1, jj, dd[jj])
       ELSE FindMax(dd, n, jj + 1, mi, mv)

\* Lines 187-196: max_index = i, max_value = d[i], then the inner loop.
MaxSearch(dd, n, k) == FindMax(dd, n, InnerStart(k), k, dd[k])

\* SwapEigenvalues without line 199: d[i] is overwritten and not kept.
SwapEigenvaluesDropsOld(dd, k, mi, mv) == [dd EXCEPT ![k] = mv]

\* Lines 199-200: d[max_index] = d[i]; d[i] = max_value.
SwapEigenvalues(dd, k, mi, mv) == [[dd EXCEPT ![mi] = dd[k]] EXCEPT ![k] = mv]

\* mxSwapColsMat(V, a, b, -1, -1): columns a and b of V exchanged, over
\* every row.
mxSwapColsMat(m, a, b) ==
  [r \in DOMAIN m |->
     [c \in DOMAIN m[r] |-> IF c = a THEN m[r][b] ELSE IF c = b THEN m[r][a] ELSE m[r][c]]]

\* Lines 185-202, one outer iteration.
SortIter ==
  /\ pc = "sort"
  /\ sort_i < n_params
  /\ LET found == MaxSearch(d, n_params, sort_i)
     IN /\ max_index' = found[1]
        /\ d' = SwapEigenvalues(d, sort_i, found[1], found[2])
        /\ V' = mxSwapColsMat(V, sort_i, found[1])
  /\ sort_i' = sort_i + 1
  /\ touched' = {"d", "V"}
  /\ UNCHANGED <<pc, collectVars, gradients, statVars, live, freed, allocd>>
  /\ UNCHANGED <<d0, V0, outVars>>

(* ---------------------------- output writer --------------------------- *)

\* Lines 204-210, entered when the sort loop's test i < n_params fails:
\* system("mkdir hessian<label>"); its result is not looked at.
Mkdir ==
  /\ pc = "sort"
  /\ sort_i >= n_params
  /\ \E ok \in BOOLEAN : mkdir_ok' = IF ok THEN "ok" ELSE "failed"
  /\ pc' = "openvals"
  /\ touched' = {}
  /\ UNCHANGED <<collectVars, gradients, statVars, eigVars, live, freed, allocd>>
  /\ UNCHANGED <<open_vals, open_vecs, fd_eigenvals, fd_eigenvecs, out_j, ret>>

\* error(msg): prints the message and ends the process; the position of a
\* run that error() ended.
FatalError == "fatal"

\* Lines 212-217: open eigenvals_full.txt; error(...) when it is not open.
OpenEigenvals ==
  /\ pc = "openvals"
  /\ \E ok \in BOOLEAN :
       IF ok
       THEN /\ open_vals' = "open"
            /\ pc' = "writevals"
       ELSE /\ open_vals' = "failed"
            /\ pc' = FatalError
  /\ out_j' = 0
  /\ touched' = {}
  /\ UNCHANGED <<collectVars, gradients, statVars, eigVars, live, freed, allocd>>
  /\ UNCHANGED <<mkdir_ok, open_vecs, fd_eigenvals, fd_eigenvecs, ret>>

\* Lines 218-219, one iteration: fd_eigenvals << d->ptr[j].
WriteEigenval ==
  /\ pc = "writevals"
  /\ out_j < n_params
  /\ fd_eigenvals' = Append(fd_eigenvals, d[out_j])
  /\ out_j' = out_j + 1
  /\ touched' = {"d"}
  /\ UNCHANGED <<pc, collectVars, gradients, statVars, eigVars, live, freed, allocd>>
  /\ UNCHANGED <<mkdir_ok, open_vals, open_vecs, fd_eigenvecs, ret>>

\* Line 227: fd_eigenvals.close().
CloseEigenvals ==
  /\ pc = "writevals"
  /\ out_j >= n_params
  /\ open_vals' = "closed"
  /\ pc' = "openvecs"
  /\ touched' = {}
  /\ UNCHANGED <<collectVars, gradients, statVars, eigVars, live, freed, allocd>>
  /\ UNCHANGED <<mkdir_ok, open_vecs, fd_eigenvals, fd_eigenvecs, out_j, ret>>

\* OpenEigenvecs without the is_open() test: the writes follow a failed open.
OpenEigenvecsUnchecked ==
  /\ pc = "openvecs"
  /\ \E ok \in BOOLEAN : open_vecs' = IF ok THEN "open" ELSE "failed"
  /\ pc' = "writevecs"
  /\ out_j' = 0
  /\ touched' = {}
  /\ UNCHANGED <<collectVars, gradients, statVars, eigVars, live, freed, allocd>>
  /\ UNCHANGED <<mkdir_ok, open_vals, fd_eigenvals, fd_eigenvecs, ret>>

\* Lines 229-238: open eigenvecs_full.txt; error(...) when it is not open.
OpenEigenvecs ==
  /\ pc = "openvecs"
  /\ \E ok \in BOOLEAN :
       IF ok
       THEN /\ open_vecs' = "open"
            /\ pc' = "writevecs"
       ELSE /\ open_vecs' = "failed"
            /\ pc' = FatalError
  /\ out_j' = 0
  /\ touched' = {}
  /\ UNCHANGED <<collectVars, gradients, statVars, eigVars, live, freed, allocd>>
  /\ UNCHANGED <<mkdir_ok, open_vals, fd_eigenvals, fd_eigenvecs, ret>>

\* Lines 239-243, one outer iteration: row j of V, entry by entry.
WriteEigenvecRow ==
  /\ pc = "writevecs"
  /\ out_j < n_params
  /\ fd_eigenvecs' = Append(fd_eigenvecs, [k \in 0..(n_params - 1) |-> V[out_j][k]])
  /\ out_j' = out_j + 1
  /\ touched' = {"V"}
  /\ UNCHANGED <<pc, collectVars, gradients, statVars, eigVars, live, freed, allocd>>
  /\ UNCHANGED <<mkdir_ok, open_vals, open_vecs, fd_eigenvals, ret>>

\* Line 252: fd_eigenvecs.close().
CloseEigenvecs ==
  /\ pc = "writevecs"
  /\ out_j >= n_params
  /\ open_vecs' = "closed"
  /\ pc' = "delete"
  /\ touched' = {}
  /\ UNCHANGED <<collectVars, gradients, statVars, eigVars, live, freed, allocd>>
  /\ UNCHANGED <<mkdir_ok, open_vals, fd_eigenvals, fd_eigenvecs, out_j, ret>>

\* Lines 254-255: delete allocator releases everything still live; return 0.
DeleteAllocator ==
  /\ pc = "delete"
  /\ freed' = Counted(freed, live)
  /\ live' = {}
  /\ ret' = 0
  /\ pc' = "done"
  /\ touched' = {}
  /\ UNCHANGED allocd
  /\ UNCHANGED <<collectVars, gradients, statVars, eigVars>>
  /\ UNCHANGED <<mkdir_ok, open_vals, open_vecs, fd_eigenvals, fd_eigenvecs, out_j>>

(* --------------------------- specifications --------------------------- *)

Next ==
  \/ CountParamsStep
  \/ AllocMats
  \/ ClearDer
  \/ Fbprop
  \/ SaveGroup
  \/ Progress
  \/ MeanNorm
  \/ ComputeMean
  \/ Center
  \/ TrMul
  \/ ScaleCov
  \/ FreeGradients
  \/ AllocEig
  \/ SymEig
  \/ SortIter
  \/ Mkdir
  \/ OpenEigenvals
  \/ WriteEigenval
  \/ CloseEigenvals
  \/ OpenEigenvecs
  \/ WriteEigenvecRow
  \/ CloseEigenvecs
  \/ DeleteAllocator

Spec == Init /\ [][Next]_vars

(* ----------------------- the sort on its own --------------------------- *)

\* The n x n permutation matrix with the one of column c on row (c + s) % n.
RotationMat(n, s) ==
  [r \in 0..(n - 1) |-> [c \in 0..(n - 1) |-> IF r = (c + s) % n THEN R(1) ELSE R(0)]]

\* The state in which the sort loop is entered (line 185), for any
\* eigenvalues 0..MaxEigVal on n <= MaxParams parameters, duplicates
\* included, on distinct eigenvector columns.  The covariance is the one
\* these eigenpairs decompose; the gradient matrix is released.
InitSort ==
  \E n \in 0..MaxParams, s \in 0..MaxParams :
    \E dd \in [0..(n - 1) -> {R(v) : v \in 0..MaxEigVal}] :
      /\ s < n \/ s = 0
      /\ pc = "sort"
      /\ size = [g \in 0..(IF n = 0 THEN -1 ELSE 0) |-> n]
      /\ n_examples = 2
      /\ der = ConstDer(size, 0)
      /\ n_params = n
      /\ grad_rows = 2
      /\ grad_cols = n
      /\ gradients = ZeroVec(2 * n)
      /\ covariance = [r \in 0..(n - 1) |->
                         [c \in 0..(n - 1) |-> IF r = c THEN dd[(r + n - s) % n] ELSE RZero]]
      /\ i = 2
      /\ j = NData(size)
      /\ ptr = 2 * n
      /\ tick = 1
      /\ gradient_mean = ZeroVec(n)
      /\ mean_norm2 = RZero
      /\ d = dd
      /\ V = RotationMat(n, s)
      /\ sort_i = 0
      /\ max_index = 0
      /\ mkdir_ok = "unrun"
      /\ open_vals = "unopened"
      /\ open_vecs = "unopened"
      /\ fd_eigenvals = <<>>
      /\ fd_eigenvecs = <<>>
      /\ out_j = 0
      /\ ret = -1
      /\ live = Objects \ {"gradients"}
      /\ freed = [o \in Objects |-> IF o = "gradients" THEN 1 ELSE 0]
      /\ allocd = [o \in Objects |-> 1]
      /\ touched = {"covariance", "d", "V"}
      /\ own = [e \in 1..2 |-> ConstDer(size, 0)]
      /\ bwd = [e \in 1..2 |-> ConstDer(size, 0)]
      /\ written = [c \in 0..(2 * n - 1) |-> <<c \div n>>]
      /\ oob = FALSE
      /\ marks = <<>>
      /\ raw = ZeroMat(2, n)
      /\ d0 = dd
      /\ V0 = RotationMat(n, s)

NextSort == SortIter

SpecSort == InitSort /\ [][NextSort]_vars

(* ------------------------------ claims -------------------------------- *)

\* The positions of main() after the sort loop.
OutputPcs == {"openvals", "writevals", "openvecs", "writevecs", "delete", "done", "fatal"}

\* The sort loop has finished.
SortDone == (pc = "sort" /\ sort_i >= n_params) \/ pc \in OutputPcs

\* C1: after the sort loop the eigenvalue vector is non-increasing:
\* d[k] >= d[k+1] for every k in 0..P-2, whatever the solver returned.
C1_SortedNonIncreasing ==
  SortDone => \A k \in 0..(n_params - 2) : ~RLess(d[k], d[k + 1])

\* C1 witness: the sort has finished on three eigenvalues that came
\* unsorted and with a duplicate.
C1_Witness ==
  /\ SortDone
  /\ n_params = 3
  /\ RLess(d0[0], d0[1])
  /\ d0[1] = d0[2]

\* The permutations of 0..n-1.
IndexPermutations(n) ==
  {f \in [0..(n - 1) -> 0..(n - 1)] : \A a, b \in 0..(n - 1) : f[a] = f[b] => a = b}

\* C2: after every outer iteration of the sort (and from then on) one
\* permutation pi takes the solver's output to the current one: d[k] is
\* d0[pi(k)] and column k of V is column pi(k) of V0, for every k.
C2_CorrespondencePreserved ==
  (pc = "sort" \/ pc \in OutputPcs) =>
    \E pi \in IndexPermutations(n_params) :
      \A k \in 0..(n_params - 1) :
        /\ d[k] = d0[pi[k]]
        /\ \A r \in 0..(n_params - 1) : V[r][k] = V0[r][pi[k]]

\* C2 witness: after two outer iterations, the first having moved an
\* eigenpair and the second having found max_index == i.
C2_Witness ==
  /\ pc = "sort"
  /\ sort_i = 2
  /\ max_index = 1
  /\ d # d0
  /\ V # V0

\* The solver's column that now stands at column k of V.
Origin(k) == CHOOSE c \in 0..(n_params - 1) : \A r \in 0..(n_params - 1) : V0[r][c] = V[r][k]

\* C9 as claimed: the sort is stable; of two eigenpairs with equal
\* eigenvalues the one the solver put first comes first in the output.
C9_StableAsClaimed ==
  SortDone =>
    \A a, b \in 0..(n_params - 1) :
      (a < b /\ d[a] = d[b]) => Origin(a) < Origin(b)

\* The indices of sort_i..P-1 holding the maximum of d over sort_i..P-1.
MaxPositions ==
  {m \in sort_i..(n_params - 1) : \A k \in sort_i..(n_params - 1) : ~RLess(d[m], d[k])}

\* C9 amended: every outer iteration selects the first maximum: max_index
\* is the least index of i..P-1 holding the maximum of d[i..P-1], and that
\* maximum is what the iteration stores in d[i].
C9_FirstMaxWins ==
  [][(pc = "sort" /\ sort_i < n_params /\ sort_i' = sort_i + 1) =>
       /\ max_index' \in MaxPositions
       /\ \A m \in MaxPositions : max_index' <= m
       /\ d'[sort_i] = d[max_index']]_vars

\* C9 witness: an outer iteration whose maximum was tied between its first
\* two candidates has selected the first.
C9_Witness ==
  /\ pc = "sort"
  /\ sort_i = 1
  /\ n_params = 3
  /\ max_index = 0
  /\ d0[0] = d0[1]
  /\ RLess(d0[2], d0[0])

\* The collection loop has finished and the rows are not centred yet.
CollectionDone == (pc = "loop" /\ i >= n_examples) \/ pc \in {"mean", "center"}

\* s_0 + ... + s_{g-1}: the first column of group g.
RECURSIVE GroupOffset(_)
GroupOffset(g) == IF g = 0 THEN 0 ELSE GroupOffset(g - 1) + size[g - 1]

\* C3: the gradient matrix has n_examples rows and s_0+...+s_{k-1} columns;
\* no memcpy ever writes outside the storage or outside the row of its
\* example; and after the collection loop row e holds, from column
\* GroupOffset(g) on, group g as it was right after example e's backward
\* pass, every cell having been written exactly once.
C3_GradientMatrixLayout ==
  /\ ~oob
  /\ \A c \in DOMAIN written :
       \A m \in 1..Len(written[c]) : written[c][m] = c \div grad_cols
  /\ pc \notin {"count", "alloc"} =>
       /\ grad_rows = n_examples
       /\ grad_cols = GroupOffset(NData(size))
       /\ DOMAIN gradients = 0..(grad_rows * grad_cols - 1)
  /\ CollectionDone =>
       /\ \A c \in DOMAIN written : Len(written[c]) = 1
       /\ \A e \in 0..(n_examples - 1) :
            \A g \in DOMAIN size :
              \A k \in 0..(size[g] - 1) :
                gradients[e * grad_cols + GroupOffset(g) + k] = bwd[e + 1][g][k]

\* C3 witness: three examples collected into a model of two groups, the
\* first of two parameters, the last row not all zero.
C3_Witness ==
  /\ CollectionDone
  /\ n_examples = 3
  /\ NData(size) = 2
  /\ size[0] = 2
  /\ gradients[2 * grad_cols + 2] = R(1)
  /\ gradients[2 * grad_cols + 1] = R(0)

\* Every entry of every der_params group is zero.
DerIsZero == \A g \in DOMAIN der : \A k \in DOMAIN der[g] : der[g][k] = RZero

\* C4: der_params is all zero whenever an example's forward/backward pass
\* is about to start, the first included; so, the backward pass being
\* additive, after the loop row e is the gradient of example e alone.
C4_NoGradientLeak ==
  /\ (pc = "loop" /\ i < n_examples) => DerIsZero
  /\ CollectionDone =>
       \A e \in 0..(n_examples - 1) :
         \A g \in DOMAIN size :
           \A k \in 0..(size[g] - 1) :
             gradients[e * grad_cols + GroupOffset(g) + k] = own[e + 1][g][k]

\* C4 witness: the second example is about to start after a first example
\* whose gradient was not zero.
C4_Witness ==
  /\ pc = "loop"
  /\ i = 1
  /\ i < n_examples
  /\ n_params >= 2
  /\ \E g \in DOMAIN size : own[1][g][0] = R(1)

\* The sum of column c of the matrix m of nrows rows.
ColumnSum(m, nrows, c) == RSum([r \in 0..(nrows - 1) |-> m[r][c]], 0, nrows - 1)

\* The gradient storage holds the centred rows and is still allocated.
Centred == pc \in {"trmul", "scale", "free"}

\* C5: after the centring pass every column of the gradient matrix sums to
\* zero, and N*G[r][c] = N*raw[r][c] - (the sum of column c of raw), in
\* exact arithmetic, for every r and c.
C5_CentredColumnsSumToZero ==
  Centred =>
    \A c \in 0..(n_params - 1) :
      /\ ColumnSum(AsMatrix(gradients, n_examples, n_params), n_examples, c) = RZero
      /\ \A r \in 0..(n_examples - 1) :
           RMul(R(n_examples), Cell(gradients, n_params, r, c))
             = RSub(RMul(R(n_examples), raw[r][c]), ColumnSum(raw, n_examples, c))

\* C5 witness: three rows centred whose first column had mean 2/3.
C5_Witness ==
  /\ pc = "trmul"
  /\ n_examples = 3
  /\ n_params >= 2
  /\ gradient_mean[0] = <<2, 3>>
  /\ Cell(gradients, n_params, 0, 0) = <<1, 3>>

\* raw[r][c] minus the mean of column c of raw.
CentredRaw(r, c) == RSub(raw[r][c], RDiv(ColumnSum(raw, n_examples, c), R(n_examples)))

\* The (a, b) entry of G^T * G, G the centred raw matrix.
Gram(a, b) ==
  RSum([r \in 0..(n_examples - 1) |-> RMul(CentredRaw(r, a), CentredRaw(r, b))],
       0, n_examples - 1)

\* The covariance is complete (both the product and the scaling are done)
\* and the eigensolver has not run yet.
CovarianceDone == pc \in {"free", "alloceig", "eig"}

\* The spec's toy input: per-example gradients [1,0], [0,1], [1,1].
ToyRaw ==
  [r \in 0..2 |->
     [c \in 0..1 |-> IF r = 2 \/ r = c THEN R(1) ELSE R(0)]]

\* The run was given the toy input and the covariance is complete.
ToyRun ==
  /\ pc \in {"free", "alloceig", "eig", "sort"} \cup OutputPcs
  /\ n_examples = 3
  /\ n_params = 2
  /\ raw = ToyRaw

C7_AbortExactlyOnOpenFailure ==
  /\ pc = "fatal" <=> (open_vals = "failed" \/ open_vecs = "failed")
  /\ open_vals = "failed" =>
       /\ fd_eigenvals = <<>>
       /\ open_vecs = "unopened"
       /\ fd_eigenvecs = <<>>
  /\ open_vecs = "failed" => fd_eigenvecs = <<>>
  /\ pc = "fatal" => ret = -1
  /\ pc = "done" =>
       /\ ret = 0
       /\ open_vals = "closed"
       /\ open_vecs = "closed"
       /\ fd_eigenvals = [k \in 1..n_params |-> d[k - 1]]
       /\ fd_eigenvecs = [r \in 1..n_params |-> V[r - 1]]
  /\ (pc \in {"openvecs", "writevecs", "delete"}) => open_vals = "closed"

\* C7 witness: a run that returned 0 with both files written although the
\* directory creation failed.
C7_Witness ==
  /\ pc = "done"
  /\ mkdir_ok = "failed"
  /\ n_params >= 2
  /\ Len(fd_eigenvecs) = n_params

\* The positions of main() from the release of the gradient matrix on.
AfterFree == {"alloceig", "eig", "sort"} \cup OutputPcs

\* C8: the gradient matrix is allocated once and released exactly once,
\* when the covariance is complete and before the eigendecomposition; no
\* step reads or writes an object that is not allocated (so none touches
\* the gradient matrix after its release); covariance, d and V are released
\* only by the final bulk release.
C8_GradientMatrixLifetime ==
  /\ allocd["gradients"] <= 1
  /\ freed["gradients"] = (IF pc \in AfterFree THEN 1 ELSE 0)
  /\ ("gradients" \in live) <=> (allocd["gradients"] = 1 /\ pc \notin AfterFree)
  /\ touched \subseteq live
  /\ pc \in AfterFree => "gradients" \notin touched
  /\ \A o \in {"covariance", "d", "V"} :
       /\ freed[o] = (IF pc = "done" /\ allocd[o] = 1 THEN 1 ELSE 0)
       /\ (pc # "done" /\ allocd[o] = 1) => o \in live

\* C8 witness: the sort is working on d and V with the gradient matrix
\* released and the covariance still allocated.
C8_Witness ==
  /\ pc = "sort"
  /\ sort_i = 1
  /\ n_params >= 2
  /\ touched = {"d", "V"}
  /\ freed["gradients"] = 1
  /\ "covariance" \in live

\* The example indices past the k-th 10% boundary.
PastBoundary(k) == {e \in 0..(n_examples - 1) : 10 * e > k * n_examples}

\* C10 as claimed: when the collection loop has finished, every boundary k
\* in 1..9 that some example index passes has exactly one mark, printed at
\* the first index past it, and there are no other marks.
C10_MarkAtEachBoundary ==
  CollectionDone =>
    /\ Len(marks) <= 9
    /\ \A k \in 1..9 :
         IF PastBoundary(k) = {}
         THEN Len(marks) < k
         ELSE /\ Len(marks) >= k
              /\ \A e \in PastBoundary(k) : marks[k] <= e
              /\ marks[k] \in PastBoundary(k)

====
